---- MODULE Spec2Model ----
(***************************************************************************)
(* Model of src/database.py: class Database, a key-value store kept in a   *)
(* Python dict and persisted as one JSON file, guarded by an RLock.        *)
(*                                                                         *)
(* Python values are tagged records; a Python str is a sequence of         *)
(* one-character strings; a dict is the insertion-ordered sequence of its  *)
(* <<key, value>> items; a file's content is a sequence of bytes.          *)
(***************************************************************************)
EXTENDS Integers, Sequences, FiniteSets, TLC

\* ------------------------------------------------------------------ bounds
NumThreads == 2
MaxCalls == 2
MaxRestarts == 1
MaxListLen == 2

Threads == 1..NumThreads

\* ----------------------------------------------------------- Python values
None == [none |-> TRUE]
PyInt(n) == [int |-> n]
PyStr(s) == [str |-> s]
PyBool(b) == [bool |-> b]
PyDict(items) == [dict |-> items]
PyList(elems) == [list |-> elems]
\* a reference to a list object of the heap
PyRef(a) == [ref |-> a]

IsDict(v) == DOMAIN v = {"dict"}
IsList(v) == DOMAIN v = {"list"}
IsRef(v) == DOMAIN v = {"ref"}
IsStr(v) == DOMAIN v = {"str"}
IsInt(v) == DOMAIN v = {"int"}

\* Keys and values the callers use (test.py uses "a", "b", 1, 2, "dark").
KeyA == <<"a">>
KeyB == <<"b">>
Keys == {KeyA, KeyB}
\* "U+00E9" stands for one non-ASCII character (two bytes in UTF-8)
Values == {PyInt(1), PyStr(<<"1", "U+00E9">>)}
Defaults == {None, PyInt(2)}

\* ------------------------------------------------------------ dict methods
HasKey(items, k) == \E i \in 1..Len(items) : items[i][1] = k
IndexOf(items, k) == CHOOSE i \in 1..Len(items) : items[i][1] = k
KeySet(items) == {items[i][1] : i \in 1..Len(items)}
Lookup(items, k) == items[IndexOf(items, k)][2]

\* a faulty variant: a get that ignores the default
DictGetNoDefault(items, k, default) == IF HasKey(items, k) THEN Lookup(items, k) ELSE None

\* dict.get(key, default)
DictGet(items, k, default) == IF HasKey(items, k) THEN Lookup(items, k) ELSE default

\* d[key] = value : an existing key keeps its position, a new key is appended
DictSetItem(items, k, v) ==
    IF HasKey(items, k)
    THEN [items EXCEPT ![IndexOf(items, k)] = <<k, v>>]
    ELSE Append(items, <<k, v>>)

\* del d[key]
DictDelItem(items, k) == SelectSeq(items, LAMBDA p : p[1] # k)

\* d.update(other), item by item in other's order
RECURSIVE DictUpdate(_, _)
DictUpdate(items, other) ==
    IF other = <<>> THEN items
    ELSE DictUpdate(DictSetItem(items, other[1][1], other[1][2]), Tail(other))

\* ------------------------------------------------- json.dump(indent=4, ...)
Digit == <<"0", "1", "2", "3", "4", "5", "6", "7", "8", "9">>
DigitSet == {Digit[i] : i \in 1..10}
DigitVal(c) == (CHOOSE i \in 1..10 : Digit[i] = c) - 1

RECURSIVE IntStr(_)
IntStr(n) ==
    IF n < 0 THEN <<"-">> \o IntStr(0 - n)
    ELSE IF n < 10 THEN <<Digit[n + 1]>>
    ELSE IntStr(n \div 10) \o <<Digit[(n % 10) + 1]>>

\* Characters the encoder writes with a backslash in front
Escaped == {"\"", "\\"}

\* "".join(chunks): the chunks from index lo to index hi, one after the other
RECURSIVE ConcatRange(_, _, _)
ConcatRange(chunks, lo, hi) ==
    IF lo > hi THEN <<>>
    ELSE IF lo = hi THEN chunks[lo]
    ELSE LET mid == (lo + hi) \div 2
         IN  ConcatRange(chunks, lo, mid) \o ConcatRange(chunks, mid + 1, hi)

\* (the sequence of chunks is computed once, then joined)
Concat(chunks) == CHOOSE joined \in {ConcatRange(c, 1, Len(c)) : c \in {chunks}} : TRUE

EscapeChars(s) ==
    Concat([i \in 1..Len(s) |-> IF s[i] \in Escaped THEN <<"\\", s[i]>> ELSE <<s[i]>>])

\* py_encode_basestring: the text between double quotes (ensure_ascii=False)
EncodeStr(s) == <<"\"">> \o EscapeChars(s) \o <<"\"">>

Indent == <<" ", " ", " ", " ">>
\* _current_indent_level levels of indent=4, after a newline
NewlineIndent(level) == <<"\n">> \o Concat([i \in 1..level |-> Indent])
ItemSeparator(level) == <<",">> \o NewlineIndent(level)
KeySeparator == <<":", " ">>

\* The chunk written for a scalar value
ScalarChunk(v) ==
    IF IsStr(v) THEN EncodeStr(v.str)
    ELSE IF IsInt(v) THEN IntStr(v.int)
    ELSE IF DOMAIN v = {"bool"} THEN (IF v.bool THEN <<"t", "r", "u", "e">>
                                       ELSE <<"f", "a", "l", "s", "e">>)
    ELSE <<"n", "u", "l", "l">>

RECURSIVE ChunksAt(_, _)

\* The chunks of the items of a dict, in iteration order, at an indent level
ItemChunks(items, level) ==
    Concat([i \in 1..Len(items) |->
               (IF i = 1 THEN <<>> ELSE <<ItemSeparator(level)>>)
               \o <<EncodeStr(items[i][1]), KeySeparator>>
               \o ChunksAt(items[i][2], level)])

\* The chunks of the elements of a list, at an indent level
ElementChunks(elems, level) ==
    Concat([i \in 1..Len(elems) |->
               (IF i = 1 THEN <<>> ELSE <<ItemSeparator(level)>>)
               \o ChunksAt(elems[i], level)])

\* _iterencode: the chunks of a value that starts at an indent level
ChunksAt(v, level) ==
    IF IsDict(v)
    THEN IF v.dict = <<>> THEN << <<"{", "}">> >>
         ELSE << <<"{">>, NewlineIndent(level + 1) >> \o ItemChunks(v.dict, level + 1)
              \o << NewlineIndent(level), <<"}">> >>
    ELSE IF IsList(v)
    THEN IF v.list = <<>> THEN << <<"[", "]">> >>
         ELSE << <<"[">>, NewlineIndent(level + 1) >> \o ElementChunks(v.list, level + 1)
              \o << NewlineIndent(level), <<"]">> >>
    ELSE <<ScalarChunk(v)>>

\* json's iterencode: the sequence of chunks json.dump hands to file.write
Chunks(v) == ChunksAt(v, 0)

\* The complete text json.dump writes for v
Dumps(v) == Concat(Chunks(v))

\* ------------------------------------------------------------- json.load
Whitespace == {" ", "\n", "\t", "\r"}
ParseFail == [ok |-> FALSE, val |-> None, pos |-> 0]
Parsed(v, p) == [ok |-> TRUE, val |-> v, pos |-> p]

RECURSIVE SkipWs(_, _)
SkipWs(s, i) == IF i <= Len(s) /\ s[i] \in Whitespace THEN SkipWs(s, i + 1) ELSE i

\* s from position i on starts with lit
Matches(s, i, lit) ==
    /\ i + Len(lit) - 1 <= Len(s)
    /\ \A j \in 1..Len(lit) : s[i + j - 1] = lit[j]

\* scanstring: i is the position after the opening quote
RECURSIVE ScanString(_, _, _)
ScanString(s, i, acc) ==
    IF i > Len(s) \/ s[i] = "\n" THEN ParseFail
    ELSE IF s[i] = "\"" THEN Parsed(PyStr(acc), i + 1)
    ELSE IF s[i] = "\\"
         THEN IF i + 1 <= Len(s) /\ s[i + 1] \in Escaped
              THEN ScanString(s, i + 2, Append(acc, s[i + 1]))
              ELSE ParseFail
    ELSE ScanString(s, i + 1, Append(acc, s[i]))

RECURSIVE ScanDigits(_, _, _)
ScanDigits(s, i, acc) ==
    IF i <= Len(s) /\ s[i] \in DigitSet
    THEN ScanDigits(s, i + 1, acc * 10 + DigitVal(s[i]))
    ELSE Parsed(PyInt(acc), i)

\* a JSON integer: 0, or a run of digits that does not start with 0
ScanInt(s, i) ==
    IF s[i] = "0" THEN Parsed(PyInt(0), i + 1) ELSE ScanDigits(s, i, 0)

RECURSIVE ParseValue(_, _)
RECURSIVE ParseMembers(_, _, _)
RECURSIVE ParseElements(_, _, _)

\* JSONObject: i is the position of a member's key; items are those parsed so far
ParseMembers(s, i, items) ==
    IF i > Len(s) \/ s[i] # "\"" THEN ParseFail
    ELSE LET k == ScanString(s, i + 1, <<>>)
             c == IF k.ok THEN SkipWs(s, k.pos) ELSE 0
         IN  IF ~k.ok \/ c > Len(s) \/ s[c] # ":" THEN ParseFail
             ELSE LET v == ParseValue(s, SkipWs(s, c + 1))
                      e == IF v.ok THEN SkipWs(s, v.pos) ELSE 0
                  IN  IF ~v.ok \/ e > Len(s) THEN ParseFail
                      ELSE IF s[e] = "}"
                           THEN Parsed(PyDict(DictSetItem(items, k.val.str, v.val)), e + 1)
                      ELSE IF s[e] = ","
                           THEN ParseMembers(s, SkipWs(s, e + 1),
                                             DictSetItem(items, k.val.str, v.val))
                      ELSE ParseFail

\* JSONArray: i is the position of an element; elems are those parsed so far
ParseElements(s, i, elems) ==
    LET v == ParseValue(s, i)
        e == IF v.ok THEN SkipWs(s, v.pos) ELSE 0
    IN  IF ~v.ok \/ e > Len(s) THEN ParseFail
        ELSE IF s[e] = "]" THEN Parsed(PyList(Append(elems, v.val)), e + 1)
        ELSE IF s[e] = "," THEN ParseElements(s, SkipWs(s, e + 1), Append(elems, v.val))
        ELSE ParseFail

\* scan_once: the value that starts at position i
ParseValue(s, i) ==
    IF i > Len(s) THEN ParseFail
    ELSE IF s[i] = "\"" THEN ScanString(s, i + 1, <<>>)
    ELSE IF s[i] = "{"
         THEN LET j == SkipWs(s, i + 1)
              IN  IF j <= Len(s) /\ s[j] = "}" THEN Parsed(PyDict(<<>>), j + 1)
                  ELSE ParseMembers(s, j, <<>>)
    ELSE IF s[i] = "["
         THEN LET j == SkipWs(s, i + 1)
              IN  IF j <= Len(s) /\ s[j] = "]" THEN Parsed(PyList(<<>>), j + 1)
                  ELSE ParseElements(s, j, <<>>)
    ELSE IF s[i] \in DigitSet THEN ScanInt(s, i)
    ELSE IF Matches(s, i, <<"n", "u", "l", "l">>) THEN Parsed(None, i + 4)
    ELSE IF Matches(s, i, <<"t", "r", "u", "e">>) THEN Parsed(PyBool(TRUE), i + 4)
    ELSE IF Matches(s, i, <<"f", "a", "l", "s", "e">>) THEN Parsed(PyBool(FALSE), i + 5)
    ELSE ParseFail

\* json.loads: one value, surrounded by whitespace only; ~ok is JSONDecodeError
Loads(s) ==
    LET r == ParseValue(s, SkipWs(s, 1))
    IN  IF r.ok /\ SkipWs(s, r.pos) = Len(s) + 1 THEN r ELSE ParseFail

\* -------------------------------------------- text files, encoding="utf-8"
\* A byte is a string: an ASCII character is its own byte, the non-ASCII
\* character "U+00E9" is the two bytes "C3" "A9", and "FF" is a byte that no
\* UTF-8 text contains.
NonAscii == {"U+00E9"}

\* a faulty variant: a non-ASCII character is written as its lead byte only
Utf8EncodeLeadOnly(chars) ==
    [i \in 1..Len(chars) |-> IF chars[i] \in NonAscii THEN "C3" ELSE chars[i]]

Utf8Encode(chars) ==
    Concat([i \in 1..Len(chars) |->
               IF chars[i] \in NonAscii THEN <<"C3", "A9">> ELSE <<chars[i]>>])

DecodeFail == [ok |-> FALSE, text |-> <<>>]

\* file.read() of a text-mode file: ~ok is UnicodeDecodeError
\* A lead byte "C3" must be followed by the continuation byte "A9", and a
\* continuation byte must follow a lead byte.
Utf8Decode(bytes) ==
    LET n == Len(bytes)
        lead(i) == bytes[i] = "C3"
        cont(i) == bytes[i] = "A9"
        valid == \A i \in 1..n :
                    /\ bytes[i] # "FF"
                    /\ lead(i) => (i < n /\ cont(i + 1))
                    /\ cont(i) => (i > 1 /\ lead(i - 1))
    IN  IF valid
        THEN [ok |-> TRUE,
              text |-> Concat([i \in 1..n |-> IF lead(i) THEN <<"U+00E9">>
                                               ELSE IF cont(i) THEN <<>>
                                               ELSE <<bytes[i]>>])]
        ELSE DecodeFail

\* ------------------------------------------------------------------ paths
\* pathlib.Path: the parent directory, and the name as stem + suffix
TestDbPath == [parent |-> "temp_dir", stem |-> "test_db", suffix |-> ".json"]

\* Path.with_suffix(suffix)
WithSuffix(p, suffix) == [p EXCEPT !.suffix = suffix]

\* a faulty variant: the document is written at the backing path itself
TempPathInPlace(p) == p

\* temp_path of _save_data
TempPath(p) == WithSuffix(p, ".tmp")

Files == {TestDbPath, TempPath(TestDbPath)}
InodeIds == 1..(NumThreads + 2)

\* ------------------------------------------------------------- operations
NoKey == <<>>
OpGet(k, d) == [name |-> "get", key |-> k, value |-> None, default |-> d, updates |-> <<>>]
OpSet(k, v) == [name |-> "set", key |-> k, value |-> v, default |-> None, updates |-> <<>>]
OpDelete(k) == [name |-> "delete", key |-> k, value |-> None, default |-> None, updates |-> <<>>]
OpClear == [name |-> "clear", key |-> NoKey, value |-> None, default |-> None, updates |-> <<>>]
OpExists(k) == [name |-> "exists", key |-> k, value |-> None, default |-> None, updates |-> <<>>]
OpUpdate(u) == [name |-> "update", key |-> NoKey, value |-> None, default |-> None, updates |-> u]
OpGetAll == [name |-> "get_all", key |-> NoKey, value |-> None, default |-> None, updates |-> <<>>]
NoOp == [name |-> "none", key |-> NoKey, value |-> None, default |-> None, updates |-> <<>>]

\* the arguments callers pass to update (test.py: a mapping of two keys)
UpdateArgs == { <<>>,
                << <<KeyA, PyInt(1)>>, <<KeyB, PyStr(<<"1", "U+00E9">>)>> >>,
                << <<KeyB, PyInt(1)>> >> }

Ops == {OpGet(k, d) : k \in Keys, d \in Defaults}
       \cup {OpSet(k, v) : k \in Keys, v \in Values}
       \cup {OpDelete(k) : k \in Keys}
       \cup {OpExists(k) : k \in Keys}
       \cup {OpUpdate(u) : u \in UpdateArgs}
       \cup {OpClear, OpGetAll}

Mutating == {"set", "delete", "update", "clear"}

\* ------------------------------------------------------------------ state
VARIABLES
    file_path,  \* self.file_path
    data,       \* self.data
    store,      \* "ok": __init__ returned; otherwise the exception it raised
    lock,       \* self._lock: the RLock's owner (0: nobody) and recursion count
    dirs,       \* the directories that exist
    names,      \* directory entries: the inode each path names (0: no such file)
    inodes,     \* the bytes of each inode
    pc,         \* where each thread is in its call
    op,         \* the call each thread is in
    pending,    \* update: the items of `updates` not merged yet
    fd,         \* _save_data: the thread's open file (inode and position)
    buf,        \* _save_data: the bytes written to the file object, not flushed yet
    exc,        \* the exception the thread's call is raising ("none": none)
    ret,        \* the value the thread's call is returning
    before,     \* history: backing file and mapping when the call took the lock
    replaces,   \* history: replaces onto the backing file done by the call
    abs,        \* history: the mapping after the last completed mutation
    seen,       \* history: abs when the thread's read looked at self.data
    okSets,     \* history: every call so far on this Store was a set that did not fail
    failed,     \* history: the call that raised IOError, until another call is made
    workers,    \* the threads of test_thread_safety_basic that were started
    calls,      \* calls started so far
    restarts,   \* constructions after the first one
    heap,       \* the caller's mutable objects (lists), by address
    copy,       \* the mapping get_all returned, in the caller's hands
    other       \* a second Store on the same path: its mapping and its persist

vars == <<file_path, data, store, lock, dirs, names, inodes, pc, op, pending, fd,
          buf, exc, ret, before, replaces, abs, seen, okSets, failed, workers,
          calls, restarts, heap, copy, other>>

NoFile == [exists |-> FALSE, bytes |-> <<>>]
FileOf(ns, ins, p) ==
    IF ns[p] = 0 THEN NoFile ELSE [exists |-> TRUE, bytes |-> ins[ns[p]]]

\* the backing file and the temporary file as they are on disk now
Backing == FileOf(names, inodes, file_path)
Temp == FileOf(names, inodes, TempPath(file_path))

NoFd == [ino |-> 0, pos |-> 0]
\* no second Store
NoWriter == [pc |-> "none", data |-> None, fd |-> NoFd, buf |-> <<>>, exc |-> "none"]
NoSnap == [file |-> NoFile, tmp |-> NoFile, data |-> None]
Unlocked == [owner |-> 0, count |-> 0]

\* the file a successful persist of mapping v leaves at the backing path
FileWith(v) == [exists |-> TRUE, bytes |-> Utf8Encode(Dumps(v))]

\* ------------------------------------------------------- load_data, __init__
\* load_data: the value returned, or the exception that escapes it
LoadData(ns, ins, p) ==
    IF ns[p] = 0 THEN [raised |-> "none", val |-> PyDict(<<>>)]
    ELSE LET d == Utf8Decode(ins[ns[p]])
             r == IF d.ok THEN Loads(d.text) ELSE ParseFail
         IN  IF ~d.ok THEN [raised |-> "UnicodeDecodeError", val |-> None]
             ELSE IF r.ok THEN [raised |-> "none", val |-> r.val]
             ELSE [raised |-> "none", val |-> PyDict(<<>>)]

\* what load_data gives on the disk as it is now
Loaded == LoadData(names, inodes, file_path)

\* the documents found at the backing path before the first construction:
\* no file, "{ invalid json" (test.py), bytes that are not UTF-8, and a
\* document this program wrote
InvalidJson == <<"{", " ", "i", "n", "v", "a", "l", "i", "d", " ", "j", "s", "o", "n">>
NotUtf8 == <<"{", "}", "FF">>
StoredItems == << <<KeyA, PyInt(1)>>, <<KeyB, PyStr(<<"1", "U+00E9">>)>> >>
InitDocs ==
    { NoFile,
      [exists |-> TRUE, bytes |-> InvalidJson],
      [exists |-> TRUE, bytes |-> NotUtf8],
      [exists |-> TRUE, bytes |-> Utf8Encode(Dumps(PyDict(StoredItems)))] }

\* __init__ on a disk whose backing path holds doc
Constructed(doc) ==
    LET ns == [p \in Files |-> IF p = TestDbPath /\ doc.exists THEN 1 ELSE 0]
        ins == [i \in InodeIds |-> IF i = 1 /\ doc.exists THEN doc.bytes ELSE <<>>]
        l == LoadData(ns, ins, TestDbPath)
    IN  /\ file_path = TestDbPath
        /\ dirs = {TestDbPath.parent}
        /\ names = ns
        /\ inodes = ins
        /\ store = IF l.raised = "none" THEN "ok" ELSE l.raised
        /\ data = l.val
        /\ abs = l.val
        /\ lock = Unlocked

\* every thread outside any call
Idle(pcs, ops, pendings, fds, bufs, excs, rets, befores, replaced, seens) ==
    /\ pcs = [t \in Threads |-> "idle"]
    /\ ops = [t \in Threads |-> NoOp]
    /\ pendings = [t \in Threads |-> <<>>]
    /\ fds = [t \in Threads |-> NoFd]
    /\ bufs = [t \in Threads |-> <<>>]
    /\ excs = [t \in Threads |-> "none"]
    /\ rets = [t \in Threads |-> None]
    /\ befores = [t \in Threads |-> NoSnap]
    /\ replaced = [t \in Threads |-> 0]
    /\ seens = [t \in Threads |-> None]

Init ==
    /\ \E doc \in InitDocs : Constructed(doc)
    /\ Idle(pc, op, pending, fd, buf, exc, ret, before, replaces, seen)
    /\ okSets = TRUE
    /\ failed = NoOp
    /\ workers = {}
    /\ calls = 0
    /\ restarts = 0
    /\ heap = <<>>
    /\ copy = None
    /\ other = NoWriter

\* The process ends, at any point of any call, and a new process constructs a
\* Store on the same path: _ensure_directory_exists, then load_data.
Construct ==
    /\ restarts < MaxRestarts
    /\ restarts' = restarts + 1
    /\ dirs' = dirs \cup {file_path.parent}
    /\ store' = IF Loaded.raised = "none" THEN "ok" ELSE Loaded.raised
    /\ data' = Loaded.val
    /\ abs' = Loaded.val
    /\ lock' = Unlocked
    /\ Idle(pc', op', pending', fd', buf', exc', ret', before', replaces', seen')
    /\ okSets' = TRUE
    /\ failed' = NoOp
    \* the files the dead process had open are closed: an inode without a
    \* name is gone
    /\ inodes' = [i \in InodeIds |->
                    IF \E p \in Files : names[p] = i THEN inodes[i] ELSE <<>>]
    /\ UNCHANGED <<file_path, names, workers, calls,
                   heap, copy, other>>

\* ------------------------------------------------------------------ RLock
\* a faulty variant: a lock that never makes a thread wait
CanAcquireAlways(t) == TRUE

\* a faulty variant: a plain Lock, which its owner cannot take again
CanAcquirePlainLock(t) == lock.owner = 0

\* RLock.acquire does not block thread t
CanAcquire(t) == lock.owner = 0 \/ lock.owner = t
Acquired(t) == [owner |-> t, count |-> lock.count + 1]
Released == IF lock.count <= 1 THEN Unlocked ELSE [lock EXCEPT !.count = @ - 1]

\* ------------------------------------------------------------ public calls
\* a thread calls a method of the Store and enters its `with self._lock:`
\* (a thread that finds the lock held waits: it takes this step later)
Begin(t, o) ==
    /\ store = "ok"
    /\ pc[t] = "idle"
    /\ CanAcquire(t)
    /\ lock' = Acquired(t)
    /\ pc' = [pc EXCEPT ![t] = "body"]
    /\ op' = [op EXCEPT ![t] = o]
    /\ pending' = [pending EXCEPT ![t] = o.updates]
    /\ before' = [before EXCEPT ![t] = [file |-> Backing, tmp |-> Temp, data |-> data]]
    /\ okSets' = (okSets /\ o.name = "set")
    /\ failed' = IF o = failed THEN failed ELSE NoOp
    /\ UNCHANGED <<file_path, data, store, dirs, names, inodes, fd, buf, exc, ret,
                   replaces, abs, seen, restarts,
                   heap, copy, other>>

\* any method, any arguments; the threads are interchangeable, so the caller
\* is the lowest-numbered thread that is outside any call
Call(t, o) ==
    /\ calls < MaxCalls
    /\ \A u \in Threads : u < t => pc[u] # "idle"
    /\ calls' = calls + 1
    /\ Begin(t, o)
    /\ UNCHANGED workers

\* test_thread_safety_basic: worker(i) is self.db.set(f"key_{i}", i)
WorkerKey(i) == <<"k", "e", "y", "_">> \o IntStr(i)
StartWorker(t) ==
    /\ t \notin workers
    /\ workers' = workers \cup {t}
    /\ Begin(t, OpSet(WorkerKey(t), PyInt(t)))
    /\ UNCHANGED calls

\* the value a read method computes from the mapping
ReadResult(o, items) ==
    IF o.name = "get" THEN DictGet(items, o.key, o.default)
    ELSE IF o.name = "exists" THEN PyBool(HasKey(items, o.key))
    ELSE PyDict(items)

\* a faulty variant: a read method that persists before it returns
AfterReadPersist(o) == "save_acquire"

\* a read method returns from its with block; it does not call _save_data
AfterRead(o) == "release"

\* get, exists, get_all: the body of the with block
Read(t) ==
    /\ pc[t] = "body"
    /\ op[t].name \in {"get", "exists", "get_all"}
    /\ ret' = [ret EXCEPT ![t] = ReadResult(op[t], data.dict)]
    /\ seen' = [seen EXCEPT ![t] = abs]
    /\ pc' = [pc EXCEPT ![t] = AfterRead(op[t])]
    /\ UNCHANGED <<file_path, data, store, lock, dirs, names, inodes, op, pending, fd,
                   buf, exc, before, replaces, abs, okSets, failed, workers,
                   calls, restarts,
                   heap, copy, other>>

\* set: self.data[key] = value
Set(t) ==
    /\ pc[t] = "body"
    /\ op[t].name = "set"
    /\ data' = PyDict(DictSetItem(data.dict, op[t].key, op[t].value))
    /\ abs' = PyDict(DictSetItem(abs.dict, op[t].key, op[t].value))
    /\ pc' = [pc EXCEPT ![t] = "save_acquire"]
    /\ UNCHANGED <<file_path, store, lock, dirs, names, inodes, op, pending, fd, buf,
                   exc, ret, before, replaces, seen, okSets, failed, workers,
                   calls, restarts,
                   heap, copy, other>>

\* a faulty variant: delete removes and persists whether the key is there or not
DeleteBranchAlways(items, k) == TRUE

\* delete takes the branch that removes the key and persists
DeleteBranch(items, k) == HasKey(items, k)

\* delete: if key in self.data: del self.data[key] ... else return False
Delete(t) ==
    /\ pc[t] = "body"
    /\ op[t].name = "delete"
    /\ IF DeleteBranch(data.dict, op[t].key)
       THEN /\ data' = PyDict(DictDelItem(data.dict, op[t].key))
            /\ abs' = PyDict(DictDelItem(abs.dict, op[t].key))
            /\ pc' = [pc EXCEPT ![t] = "save_acquire"]
            /\ ret' = ret
       ELSE /\ ret' = [ret EXCEPT ![t] = PyBool(FALSE)]
            /\ pc' = [pc EXCEPT ![t] = "release"]
            /\ UNCHANGED <<data, abs>>
    /\ UNCHANGED <<file_path, store, lock, dirs, names, inodes, op, pending, fd, buf,
                   exc, before, replaces, seen, okSets, failed, workers,
                   calls, restarts,
                   heap, copy, other>>

\* a faulty variant: clear persists only when it removed something
AfterClearIfAny(items) == IF items = <<>> THEN "release" ELSE "save_acquire"

\* clear calls _save_data whatever the mapping held
AfterClear(items) == "save_acquire"

\* clear: self.data.clear(), then _save_data
Clear(t) ==
    /\ pc[t] = "body"
    /\ op[t].name = "clear"
    /\ data' = PyDict(<<>>)
    /\ abs' = PyDict(<<>>)
    /\ pc' = [pc EXCEPT ![t] = AfterClear(data.dict)]
    /\ UNCHANGED <<file_path, store, lock, dirs, names, inodes, op, pending, fd, buf,
                   exc, ret, before, replaces, seen, okSets, failed, workers,
                   calls, restarts,
                   heap, copy, other>>

\* a faulty variant: update calls _save_data after every item it merges
AfterMergeEach(n) == "save_acquire"

\* update, with n items of `updates` still to merge: the merge goes on, and
\* _save_data is called once it is over
AfterMerge(n) == IF n = 0 THEN "save_acquire" ELSE "body"

\* update: self.data.update(updates), one item at a time, then _save_data
Update(t) ==
    /\ pc[t] = "body"
    /\ op[t].name = "update"
    /\ IF pending[t] # <<>>
       THEN /\ data' = PyDict(DictSetItem(data.dict, pending[t][1][1], pending[t][1][2]))
            /\ pending' = [pending EXCEPT ![t] = Tail(@)]
            /\ abs' = IF Len(pending[t]) = 1
                      THEN PyDict(DictUpdate(abs.dict, op[t].updates)) ELSE abs
            /\ pc' = [pc EXCEPT ![t] = AfterMerge(Len(pending[t]) - 1)]
       ELSE /\ pc' = [pc EXCEPT ![t] = AfterMerge(0)]
            /\ UNCHANGED <<data, pending, abs>>
    /\ UNCHANGED <<file_path, store, lock, dirs, names, inodes, op, fd, buf, exc, ret,
                   before, replaces, seen, okSets, failed, workers,
                   calls, restarts,
                   heap, copy, other>>

\* ------------------------------------------------------------- _save_data
InUse(i) ==
    \/ \E p \in Files : names[p] = i
    \/ \E t \in Threads : fd[t].ino = i
    \/ other.fd.ino = i
FreeInode == CHOOSE i \in InodeIds : ~InUse(i) /\ \A j \in InodeIds : ~InUse(j) => i <= j

\* write(2) at a position: the bytes land there, a gap is filled with NUL
WriteAt(bytes, pos, new) ==
    LET n == IF pos + Len(new) > Len(bytes) THEN pos + Len(new) ELSE Len(bytes)
    IN  [i \in 1..n |-> IF i > pos /\ i <= pos + Len(new) THEN new[i - pos]
                        ELSE IF i <= Len(bytes) THEN bytes[i] ELSE "NUL"]

\* how many bytes of n reach the disk when a flush fails: none, or half of them
PartialCuts(n) == {0, n \div 2}

\* `with self._lock:` of _save_data, entered with the lock already held
SaveAcquire(t) ==
    /\ pc[t] = "save_acquire"
    /\ CanAcquire(t)
    /\ lock' = Acquired(t)
    /\ pc' = [pc EXCEPT ![t] = "save_open"]
    /\ UNCHANGED <<file_path, data, store, dirs, names, inodes, op, pending, fd, buf,
                   exc, ret, before, replaces, abs, seen, okSets, failed, workers,
                   calls, restarts,
                   heap, copy, other>>

\* open(temp_path, "w"): the file is created, or truncated when it exists
SaveOpen(t) ==
    /\ pc[t] = "save_open"
    /\ file_path.parent \in dirs
    /\ LET tmp == TempPath(file_path)
           ino == IF names[tmp] # 0 THEN names[tmp] ELSE FreeInode
       IN  /\ names' = [names EXCEPT ![tmp] = ino]
           /\ inodes' = [inodes EXCEPT ![ino] = <<>>]
           /\ fd' = [fd EXCEPT ![t] = [ino |-> ino, pos |-> 0]]
    /\ pc' = [pc EXCEPT ![t] = "save_dump"]
    /\ UNCHANGED <<file_path, data, store, lock, dirs, op, pending, buf, exc, ret,
                   before, replaces, abs, seen, okSets, failed, workers,
                   calls, restarts,
                   heap, copy, other>>

\* a faulty variant: the mapping serialized is the one read when the call began
PersistedStale(t) == before[t].data

\* a value with the list objects it refers to in place of the references
Deref(v) ==
    LET obj(x) == IF IsRef(x) THEN PyList(heap[x.ref]) ELSE x
    IN  IF IsDict(v)
        THEN PyDict([i \in 1..Len(v.dict) |-> <<v.dict[i][1], obj(v.dict[i][2])>>])
        ELSE obj(v)

\* the object json.dump serializes: self.data as it is now, with the objects
\* its values refer to as they are now
Persisted(t) == Deref(data)

\* json.dump(self.data, file, ...): every chunk goes to the file object, which
\* buffers it (a document of this size stays below the buffer size)
SaveDump(t) ==
    /\ pc[t] = "save_dump"
    /\ buf' = [buf EXCEPT ![t] = Utf8Encode(Dumps(Persisted(t)))]
    /\ pc' = [pc EXCEPT ![t] = "save_close"]
    /\ UNCHANGED <<file_path, data, store, lock, dirs, names, inodes, op, pending, fd,
                   exc, ret, before, replaces, abs, seen, okSets, failed, workers,
                   calls, restarts,
                   heap, copy, other>>

\* the with block of open ends: the buffer is flushed and the file closed
SaveClose(t) ==
    /\ pc[t] = "save_close"
    /\ inodes' = [inodes EXCEPT ![fd[t].ino] = WriteAt(@, fd[t].pos, buf[t])]
    /\ fd' = [fd EXCEPT ![t] = NoFd]
    /\ buf' = [buf EXCEPT ![t] = <<>>]
    /\ pc' = [pc EXCEPT ![t] = "save_replace"]
    /\ UNCHANGED <<file_path, data, store, lock, dirs, names, op, pending, exc, ret,
                   before, replaces, abs, seen, okSets, failed, workers,
                   calls, restarts,
                   heap, copy, other>>

\* a faulty variant: the except clause restores the mapping of before the call
DataRolledBack(t) == before[t].data

\* the mapping once the except clause has re-raised: it only raises, so the
\* mutation made before _save_data stays
DataAfterFailure(t) == data

\* open or replace fails for a reason outside the program (permissions, a
\* full disk): OSError, re-raised as IOError
Fails(t, at) ==
    /\ pc[t] = at
    /\ data' = DataAfterFailure(t)
    /\ exc' = [exc EXCEPT ![t] = "IOError"]
    /\ pc' = [pc EXCEPT ![t] = "save_release"]
    /\ okSets' = FALSE
    /\ UNCHANGED <<file_path, store, lock, dirs, names, inodes, op, pending, fd,
                   buf, ret, before, replaces, abs, seen, failed, workers,
                   calls, restarts,
                   heap, copy, other>>

\* the flush fails (a full disk) after part of the buffer reached the file;
\* the file is closed and the OSError re-raised as IOError
FlushFails(t) ==
    /\ pc[t] = "save_close"
    /\ \E n \in PartialCuts(Len(buf[t])) :
          inodes' = [inodes EXCEPT ![fd[t].ino] = WriteAt(@, fd[t].pos, SubSeq(buf[t], 1, n))]
    /\ fd' = [fd EXCEPT ![t] = NoFd]
    /\ buf' = [buf EXCEPT ![t] = <<>>]
    /\ exc' = [exc EXCEPT ![t] = "IOError"]
    /\ pc' = [pc EXCEPT ![t] = "save_release"]
    /\ okSets' = FALSE
    /\ data' = DataAfterFailure(t)
    /\ UNCHANGED <<file_path, store, lock, dirs, names, op, pending, ret, before,
                   replaces, abs, seen, failed, workers, calls, restarts,
                   heap, copy, other>>

\* the directory entries and inodes after os.replace(src, dst): dst names the
\* inode src named and src is gone. The inode numbers are then exchanged, so
\* that dst keeps its number (numbers are not observable).
AfterReplace(src, dst) ==
    LET a == names[dst]
        b == names[src]
        held == (\E t \in Threads : fd[t].ino = a) \/ other.fd.ino = a
        exchanged(f) == IF f.ino = a THEN [f EXCEPT !.ino = b]
                        ELSE IF f.ino = b THEN [f EXCEPT !.ino = a]
                        ELSE f
    IN  IF src = dst
        THEN [names |-> names, inodes |-> inodes, fd |-> fd, other |-> other]
        ELSE IF a = 0
        THEN [names |-> [names EXCEPT ![dst] = b, ![src] = 0], inodes |-> inodes,
              fd |-> fd, other |-> other]
        ELSE [names |-> [names EXCEPT ![src] = 0],
              inodes |-> [inodes EXCEPT ![a] = inodes[b],
                                        ![b] = IF held THEN inodes[a] ELSE <<>>],
              fd |-> [t \in Threads |-> exchanged(fd[t])],
              other |-> [other EXCEPT !.fd = exchanged(@)]]

\* temp_path.replace(self.file_path)
SaveReplace(t) ==
    /\ pc[t] = "save_replace"
    /\ names[TempPath(file_path)] # 0
    /\ LET r == AfterReplace(TempPath(file_path), file_path)
       IN  /\ names' = r.names
           /\ inodes' = r.inodes
           /\ fd' = r.fd
           /\ other' = r.other
    /\ replaces' = [replaces EXCEPT ![t] = @ + 1]
    /\ pc' = [pc EXCEPT ![t] = "save_release"]
    /\ UNCHANGED <<file_path, data, store, lock, dirs, op, pending, buf, exc, ret,
                   before, abs, seen, okSets, failed, workers,
                   calls, restarts,
                   heap, copy>>

\* _save_data ends: its with block releases the lock once; delete, when no
\* exception is passing, goes on to `return True`
SaveRelease(t) ==
    /\ pc[t] = "save_release"
    /\ lock' = Released
    /\ ret' = [ret EXCEPT ![t] = IF exc[t] = "none" /\ op[t].name = "delete"
                                 THEN PyBool(TRUE) ELSE @]
    /\ pc' = [pc EXCEPT ![t] = "release"]
    /\ UNCHANGED <<file_path, data, store, dirs, names, inodes, op, pending, fd, buf,
                   exc, before, replaces, abs, seen, okSets, failed, workers,
                   calls, restarts,
                   heap, copy, other>>

\* the public method's with block ends and the call returns ret, or raises
\* exc; the thread is outside any call again
Release(t) ==
    /\ pc[t] = "release"
    /\ lock' = Released
    /\ pc' = [pc EXCEPT ![t] = "idle"]
    /\ op' = [op EXCEPT ![t] = NoOp]
    /\ exc' = [exc EXCEPT ![t] = "none"]
    /\ ret' = [ret EXCEPT ![t] = None]
    /\ before' = [before EXCEPT ![t] = NoSnap]
    /\ replaces' = [replaces EXCEPT ![t] = 0]
    /\ seen' = [seen EXCEPT ![t] = None]
    /\ failed' = IF exc[t] = "IOError" THEN op[t] ELSE NoOp
    /\ UNCHANGED <<file_path, data, store, dirs, names, inodes, pending, fd, buf,
                   abs, okSets, workers, calls, restarts,
                   heap, copy, other>>

\* ---------------------------------------------------------- specification
Next ==
    \/ Construct
    \/ \E t \in Threads :
        \/ \E o \in Ops : Call(t, o)
        \/ Read(t)
        \/ Set(t)
        \/ Delete(t)
        \/ Clear(t)
        \/ Update(t)
        \/ SaveAcquire(t)
        \/ SaveOpen(t)
        \/ Fails(t, "save_open")
        \/ SaveDump(t)
        \/ SaveClose(t)
        \/ FlushFails(t)
        \/ SaveReplace(t)
        \/ Fails(t, "save_replace")
        \/ SaveRelease(t)
        \/ Release(t)

Spec == Init /\ [][Next]_vars

\* test_thread_safety_basic: every thread runs worker(i) once
NextWorkers ==
    \E t \in Threads :
        \/ StartWorker(t)
        \/ Set(t)
        \/ SaveAcquire(t)
        \/ SaveOpen(t)
        \/ Fails(t, "save_open")
        \/ SaveDump(t)
        \/ SaveClose(t)
        \/ FlushFails(t)
        \/ SaveReplace(t)
        \/ Fails(t, "save_replace")
        \/ SaveRelease(t)
        \/ Release(t)

SpecWorkers == Init /\ [][NextWorkers]_vars

\* ------------------------------------------------- calls that wait for the lock
\* a thread calls a method and arrives at its `with self._lock:`
Invoke(t, o) ==
    /\ store = "ok"
    /\ pc[t] = "idle"
    /\ calls < MaxCalls
    /\ calls' = calls + 1
    /\ pc' = [pc EXCEPT ![t] = "acquire"]
    /\ op' = [op EXCEPT ![t] = o]
    /\ UNCHANGED <<file_path, data, store, lock, dirs, names, inodes, pending, fd, buf,
                   exc, ret, before, replaces, abs, seen, okSets, failed, workers,
                   restarts, heap, copy, other>>

\* the waiting thread gets the lock and enters the with block
Acquire(t) ==
    /\ pc[t] = "acquire"
    /\ CanAcquire(t)
    /\ lock' = Acquired(t)
    /\ pc' = [pc EXCEPT ![t] = "body"]
    /\ pending' = [pending EXCEPT ![t] = op[t].updates]
    /\ before' = [before EXCEPT ![t] = [file |-> Backing, tmp |-> Temp, data |-> data]]
    /\ okSets' = (okSets /\ op[t].name = "set")
    /\ failed' = IF op[t] = failed THEN failed ELSE NoOp
    /\ UNCHANGED <<file_path, data, store, dirs, names, inodes, op, fd, buf, exc, ret,
                   replaces, abs, seen, workers, calls, restarts, heap, copy, other>>

\* the steps thread t takes by itself once it has called a method; every
\* disk step ends, with success or with a failure
Proceed(t) ==
    \/ Acquire(t)
    \/ Read(t)
    \/ Set(t)
    \/ Delete(t)
    \/ Clear(t)
    \/ Update(t)
    \/ SaveAcquire(t)
    \/ SaveOpen(t)
    \/ Fails(t, "save_open")
    \/ SaveDump(t)
    \/ SaveClose(t)
    \/ FlushFails(t)
    \/ SaveReplace(t)
    \/ Fails(t, "save_replace")
    \/ SaveRelease(t)
    \/ Release(t)

\* one call of each public method
OpsLive == {OpGet(KeyA, None), OpSet(KeyA, PyInt(1)), OpDelete(KeyA), OpClear,
            OpExists(KeyA), OpUpdate(StoredItems), OpGetAll}

NextLive ==
    \E t \in Threads :
        \/ \E o \in OpsLive : Invoke(t, o)
        \/ Proceed(t)

\* the Store is constructed on a missing file or on a document it wrote
InitLive ==
    /\ Init
    /\ Backing \in {NoFile, FileWith(PyDict(StoredItems))}

\* a thread that can take a step is not suspended forever
SpecLive == InitLive /\ [][NextLive]_vars /\ \A t \in Threads : WF_vars(Proceed(t))

\* ------------------------------------------------ any backing path
\* Database(file_path) with a path the caller chooses: the one of test.py, and
\* one in the same directory whose suffix is ".tmp"
TmpNamedPath == [parent |-> "temp_dir", stem |-> "test_db", suffix |-> ".tmp"]
BackingPaths == {TestDbPath, TmpNamedPath}

\* __init__(file_path = p) on a disk whose path p holds doc
ConstructedAt(p, doc) ==
    LET ns == [q \in Files |-> IF q = p /\ doc.exists THEN 1 ELSE 0]
        ins == [i \in InodeIds |-> IF i = 1 /\ doc.exists THEN doc.bytes ELSE <<>>]
        l == LoadData(ns, ins, p)
    IN  /\ file_path = p
        /\ dirs = {p.parent}
        /\ names = ns
        /\ inodes = ins
        /\ store = IF l.raised = "none" THEN "ok" ELSE l.raised
        /\ data = l.val
        /\ abs = l.val
        /\ lock = Unlocked

InitPaths ==
    /\ \E p \in BackingPaths : \E doc \in InitDocs : ConstructedAt(p, doc)
    /\ Idle(pc, op, pending, fd, buf, exc, ret, before, replaces, seen)
    /\ okSets = TRUE
    /\ failed = NoOp
    /\ workers = {}
    /\ calls = 0
    /\ restarts = 0
    /\ heap = <<>>
    /\ copy = None
    /\ other = NoWriter

SpecPaths == InitPaths /\ [][Next]_vars

\* ------------------------------------------------ any well-formed document
\* documents json.load accepts whose top level is not an object: 1 and [1]
ScalarDoc == [exists |-> TRUE, bytes |-> <<"1">>]
SequenceDoc == [exists |-> TRUE, bytes |-> <<"[", "1", "]">>]
AnyDocs == InitDocs \cup {ScalarDoc, SequenceDoc}

InitDocsAny ==
    /\ \E doc \in AnyDocs : ConstructedAt(TestDbPath, doc)
    /\ Idle(pc, op, pending, fd, buf, exc, ret, before, replaces, seen)
    /\ okSets = TRUE
    /\ failed = NoOp
    /\ workers = {}
    /\ calls = 0
    /\ restarts = 0
    /\ heap = <<>>
    /\ copy = None
    /\ other = NoWriter

\* the exception the body of a method raises when self.data is v, an int or
\* a list ("none": it raises nothing): an int has no get, copy, update or
\* clear, is not a container and takes no item assignment; a list has no get
\* and no update and takes no string index
RaisedOn(v, name) ==
    IF IsList(v)
    THEN IF name \in {"get", "update"} THEN "AttributeError"
         ELSE IF name = "set" THEN "TypeError"
         ELSE "none"
    ELSE IF name \in {"get", "get_all", "update", "clear"} THEN "AttributeError"
         ELSE "TypeError"

\* the body of the with block of any method when self.data is not a dict;
\* on a list, `key in self.data` is False for a string key (the elements
\* are numbers), copy() and clear() are those of list
BodyOnNonMapping(t) ==
    /\ pc[t] = "body"
    /\ ~IsDict(data)
    /\ LET name == op[t].name
           e == RaisedOn(data, name)
       IN  IF e # "none"
           THEN /\ exc' = [exc EXCEPT ![t] = e]
                /\ pc' = [pc EXCEPT ![t] = "release"]
                /\ UNCHANGED <<data, abs, ret>>
           ELSE IF name = "clear"
           THEN /\ data' = PyList(<<>>)
                /\ abs' = PyList(<<>>)
                /\ pc' = [pc EXCEPT ![t] = "save_acquire"]
                /\ UNCHANGED <<exc, ret>>
           ELSE /\ ret' = [ret EXCEPT ![t] = IF name = "get_all" THEN data
                                             ELSE PyBool(FALSE)]
                /\ pc' = [pc EXCEPT ![t] = "release"]
                /\ UNCHANGED <<data, abs, exc>>
    /\ UNCHANGED <<file_path, store, lock, dirs, names, inodes, op, pending, fd, buf,
                   before, replaces, seen, okSets, failed, workers, calls, restarts,
                   heap, copy, other>>

\* the body of the with block when self.data is a dict
BodyOnMapping(t) ==
    /\ IsDict(data)
    /\ \/ Read(t)
       \/ Set(t)
       \/ Delete(t)
       \/ Clear(t)
       \/ Update(t)

NextDocs ==
    \/ Construct
    \/ \E t \in Threads :
        \/ \E o \in Ops : Call(t, o)
        \/ BodyOnMapping(t)
        \/ BodyOnNonMapping(t)
        \/ SaveAcquire(t)
        \/ SaveOpen(t)
        \/ Fails(t, "save_open")
        \/ SaveDump(t)
        \/ SaveClose(t)
        \/ FlushFails(t)
        \/ SaveReplace(t)
        \/ Fails(t, "save_replace")
        \/ SaveRelease(t)
        \/ Release(t)

SpecDocs == InitDocsAny /\ [][NextDocs]_vars

\* ------------------------------------------- the caller and the copy it got
\* a document this program wrote whose value at "a" is a list
NestedItems == << <<KeyA, PyList(<<PyInt(1)>>)>>, <<KeyB, PyInt(1)>> >>

\* json.load builds one list object for every array: the objects of the
\* values of items, in order, and the items with references to them
ListItems(items) == SelectSeq(items, LAMBDA p : IsList(p[2]))
Objects(items) == [a \in 1..Len(ListItems(items)) |-> ListItems(items)[a][2].list]
AddressOf(items, i) == Cardinality({j \in 1..i : IsList(items[j][2])})
Referenced(items) ==
    [i \in 1..Len(items) |->
        <<items[i][1], IF IsList(items[i][2]) THEN PyRef(AddressOf(items, i))
                       ELSE items[i][2]>>]

\* __init__ on a disk whose backing path holds the document of NestedItems
InitCopy ==
    /\ LET doc == FileWith(PyDict(NestedItems))
           ns == [p \in Files |-> IF p = TestDbPath THEN 1 ELSE 0]
           ins == [i \in InodeIds |-> IF i = 1 THEN doc.bytes ELSE <<>>]
           l == LoadData(ns, ins, TestDbPath)
       IN  /\ file_path = TestDbPath
           /\ dirs = {TestDbPath.parent}
           /\ names = ns
           /\ inodes = ins
           /\ store = "ok"
           /\ data = PyDict(Referenced(l.val.dict))
           /\ heap = Objects(l.val.dict)
           /\ abs = l.val
           /\ lock = Unlocked
    /\ Idle(pc, op, pending, fd, buf, exc, ret, before, replaces, seen)
    /\ okSets = TRUE
    /\ failed = NoOp
    /\ workers = {}
    /\ calls = 0
    /\ restarts = 0
    /\ copy = None
    /\ other = NoWriter

\* dict.copy(): a new dict with the same keys, whose values are the same
\* objects
DictCopy(items) == items

\* the public method's with block ends and the call returns; the caller of
\* get_all keeps the mapping it got: return self.data.copy()
Return(t) ==
    /\ pc[t] = "release"
    /\ lock' = Released
    /\ pc' = [pc EXCEPT ![t] = "idle"]
    /\ op' = [op EXCEPT ![t] = NoOp]
    /\ exc' = [exc EXCEPT ![t] = "none"]
    /\ ret' = [ret EXCEPT ![t] = None]
    /\ before' = [before EXCEPT ![t] = NoSnap]
    /\ replaces' = [replaces EXCEPT ![t] = 0]
    /\ seen' = [seen EXCEPT ![t] = None]
    /\ failed' = IF exc[t] = "IOError" THEN op[t] ELSE NoOp
    /\ copy' = IF op[t].name = "get_all" /\ exc[t] = "none"
               THEN PyDict(DictCopy(ret[t].dict)) ELSE copy
    /\ UNCHANGED <<file_path, data, store, dirs, names, inodes, pending, fd, buf,
                   abs, okSets, workers, calls, restarts, heap, other>>

\* the caller, on the mapping get_all returned: m[k] = v
CallerSetsKey(k, v) ==
    /\ copy # None
    /\ copy' = PyDict(DictSetItem(copy.dict, k, v))
    /\ UNCHANGED <<file_path, data, store, lock, dirs, names, inodes, pc, op, pending,
                   fd, buf, exc, ret, before, replaces, abs, seen, okSets, failed,
                   workers, calls, restarts, heap, other>>

\* del m[k]
CallerDeletesKey(k) ==
    /\ copy # None
    /\ HasKey(copy.dict, k)
    /\ copy' = PyDict(DictDelItem(copy.dict, k))
    /\ UNCHANGED <<file_path, data, store, lock, dirs, names, inodes, pc, op, pending,
                   fd, buf, exc, ret, before, replaces, abs, seen, okSets, failed,
                   workers, calls, restarts, heap, other>>

\* m[k].append(2), where m[k] is a list
CallerAppends(k) ==
    /\ copy # None
    /\ HasKey(copy.dict, k)
    /\ IsRef(Lookup(copy.dict, k))
    /\ LET a == Lookup(copy.dict, k).ref
       IN  /\ Len(heap[a]) < MaxListLen
           /\ heap' = [heap EXCEPT ![a] = Append(@, PyInt(2))]
    /\ UNCHANGED <<file_path, data, store, lock, dirs, names, inodes, pc, op, pending,
                   fd, buf, exc, ret, before, replaces, abs, seen, okSets, failed,
                   workers, calls, restarts, copy, other>>

\* the calls made on this Store
OpsCopy == {OpGet(KeyA, None), OpExists(KeyB), OpGetAll, OpSet(KeyB, PyInt(2)),
            OpDelete(KeyB), OpClear, OpUpdate(<< <<KeyB, PyInt(1)>> >>)}

NextCopy ==
    \/ \E k \in Keys : \E v \in Values : CallerSetsKey(k, v)
    \/ \E k \in Keys : CallerDeletesKey(k)
    \/ \E k \in Keys : CallerAppends(k)
    \/ \E t \in Threads :
        \/ \E o \in OpsCopy : Call(t, o)
        \/ Read(t)
        \/ Set(t)
        \/ Delete(t)
        \/ Clear(t)
        \/ Update(t)
        \/ SaveAcquire(t)
        \/ SaveOpen(t)
        \/ Fails(t, "save_open")
        \/ SaveDump(t)
        \/ SaveClose(t)
        \/ FlushFails(t)
        \/ SaveReplace(t)
        \/ Fails(t, "save_replace")
        \/ SaveRelease(t)
        \/ Return(t)

SpecCopy == InitCopy /\ [][NextCopy]_vars

\* ------------------------------------------ a second Store on the same path
\* what the second Store's steps leave alone: the first Store's memory, its
\* lock (the second Store has an RLock of its own) and its threads
OtherFrame ==
    UNCHANGED <<file_path, data, store, lock, dirs, pc, op, pending, buf, exc, ret,
                before, replaces, abs, seen, okSets, failed, workers, restarts,
                heap, copy>>

\* Database(file_path) once more, in this process or in another one
OtherConstruct ==
    /\ other.pc = "none"
    /\ Loaded.raised = "none"
    /\ other' = [NoWriter EXCEPT !.pc = "idle", !.data = Loaded.val]
    /\ UNCHANGED <<names, inodes, fd, calls>>
    /\ OtherFrame

\* set(k, v) on the second Store: self.data[key] = value, then _save_data
OtherSet(k, v) ==
    /\ other.pc = "idle"
    /\ calls < MaxCalls
    /\ calls' = calls + 1
    /\ other' = [other EXCEPT !.data = PyDict(DictSetItem(@.dict, k, v)),
                              !.exc = "none",
                              !.pc = "save_open"]
    /\ UNCHANGED <<names, inodes, fd>>
    /\ OtherFrame

\* open(temp_path, "w"): the same temporary path as the first Store's
OtherOpen ==
    /\ other.pc = "save_open"
    /\ LET tmp == TempPath(file_path)
           ino == IF names[tmp] # 0 THEN names[tmp] ELSE FreeInode
       IN  /\ names' = [names EXCEPT ![tmp] = ino]
           /\ inodes' = [inodes EXCEPT ![ino] = <<>>]
           /\ other' = [other EXCEPT !.fd = [ino |-> ino, pos |-> 0],
                                     !.pc = "save_dump"]
    /\ UNCHANGED <<fd, calls>>
    /\ OtherFrame

\* json.dump(self.data, file, ...)
OtherDump ==
    /\ other.pc = "save_dump"
    /\ other' = [other EXCEPT !.buf = Utf8Encode(Dumps(other.data)),
                              !.pc = "save_close"]
    /\ UNCHANGED <<names, inodes, fd, calls>>
    /\ OtherFrame

\* the with block of open ends: the buffer is flushed and the file closed
OtherClose ==
    /\ other.pc = "save_close"
    /\ inodes' = [inodes EXCEPT ![other.fd.ino] = WriteAt(@, other.fd.pos, other.buf)]
    /\ other' = [other EXCEPT !.fd = NoFd, !.buf = <<>>, !.pc = "save_replace"]
    /\ UNCHANGED <<names, fd, calls>>
    /\ OtherFrame

\* temp_path.replace(self.file_path); FileNotFoundError, re-raised as IOError,
\* when the temporary path names no file any more
OtherReplace ==
    /\ other.pc = "save_replace"
    /\ IF names[TempPath(file_path)] # 0
       THEN LET r == AfterReplace(TempPath(file_path), file_path)
            IN  /\ names' = r.names
                /\ inodes' = r.inodes
                /\ fd' = r.fd
                /\ other' = [r.other EXCEPT !.pc = "idle"]
       ELSE /\ other' = [other EXCEPT !.exc = "IOError", !.pc = "idle"]
            /\ UNCHANGED <<names, inodes, fd>>
    /\ UNCHANGED calls
    /\ OtherFrame

\* temp_path.replace(self.file_path) of the first Store when the second one
\* has renamed the temporary file away: FileNotFoundError, re-raised as IOError
ReplaceFindsNoTemp(t) ==
    /\ names[TempPath(file_path)] = 0
    /\ Fails(t, "save_replace")

\* the calls made on the first Store
OpsWriters == {OpSet(KeyB, PyStr(<<"1", "U+00E9">>)), OpClear}

\* no step fails for a reason outside the two Stores
NextWriters ==
    \/ OtherConstruct
    \/ \E k \in Keys : \E v \in Values : OtherSet(k, v)
    \/ OtherOpen
    \/ OtherDump
    \/ OtherClose
    \/ OtherReplace
    \/ \E t \in Threads :
        \/ \E o \in OpsWriters : Call(t, o)
        \/ Set(t)
        \/ Clear(t)
        \/ SaveAcquire(t)
        \/ SaveOpen(t)
        \/ SaveDump(t)
        \/ SaveClose(t)
        \/ SaveReplace(t)
        \/ ReplaceFindsNoTemp(t)
        \/ SaveRelease(t)
        \/ Release(t)

SpecWriters == InitLive /\ [][NextWriters]_vars

\* ------------------------------------------------------------ properties
\* the file f is there, is well-formed, and json.load gives exactly mapping v
DeserializesTo(f, v) ==
    /\ f.exists
    /\ Utf8Decode(f.bytes).ok
    /\ Loads(Utf8Decode(f.bytes).text).ok
    /\ Loads(Utf8Decode(f.bytes).text).val = v

\* the mapping a mutating call o makes of the mapping `items`
Applied(items, o) ==
    IF o.name = "set" THEN DictSetItem(items, o.key, o.value)
    ELSE IF o.name = "delete" THEN DictDelItem(items, o.key)
    ELSE IF o.name = "update" THEN DictUpdate(items, o.updates)
    ELSE IF o.name = "clear" THEN <<>>
    ELSE items

\* thread t is at the end of its call: what it returns or raises is settled
\* and it still holds the lock
AtEnd(t) == pc[t] = "release"
InPersist(t) == pc[t] \in {"save_acquire", "save_open", "save_dump", "save_close",
                           "save_replace", "save_release"}
\* the call of t went through _save_data
Persisting(t) ==
    /\ op[t].name \in Mutating
    /\ op[t].name = "delete" => HasKey(before[t].data.dict, op[t].key)
AllIdle == \A t \in Threads : pc[t] = "idle"

\* C1 (as claimed): at the end of every mutating call that returns without
\* error, a Store loaded from the backing file would hold exactly the
\* in-memory mapping; delete calls that return false and calls made after an
\* earlier persist failure are included.
C1_DiskMatchesMemoryAfterEveryCall ==
    \A t \in Threads :
        (AtEnd(t) /\ op[t].name \in Mutating /\ exc[t] = "none")
            => (Loaded.raised = "none" /\ Loaded.val = data)

\* C2: at every step of a persist the backing file is, byte for byte, the
\* file that was there before the call, or else the complete serialization of
\* the new mapping; a Store constructed at that point (after a crash) reads
\* the unchanged old file, or a file that deserializes to the new mapping.
C2_BackingFileOldOrNew ==
    \A t \in Threads :
        (Persisting(t) /\ (InPersist(t) \/ AtEnd(t)))
            => \/ Backing = before[t].file
               \/ /\ Backing = FileWith(data)
                  /\ Loaded.raised = "none"
                  /\ Loaded.val = data

\* C2's case: the replace of a persist has put a new document in place
C2_Witness ==
    \E t \in Threads :
        /\ pc[t] = "save_release" /\ exc[t] = "none"
        /\ Backing = FileWith(data)
        /\ before[t].file.exists /\ Backing # before[t].file

\* C3: a mutating call whose persist fails ends raising IOError (it cannot end
\* without raising unless it replaced the file), with the backing file as it
\* was before the call and the mapping holding the attempted mutation; the
\* lock is held once at that point and free once every call is over.
C3_FailedPersistKeepsFileAndMutation ==
    /\ \A t \in Threads :
          /\ (AtEnd(t) /\ exc[t] = "IOError")
                => /\ Backing = before[t].file
                   /\ data = PyDict(Applied(before[t].data.dict, op[t]))
                   /\ lock = [owner |-> t, count |-> 1]
          /\ (AtEnd(t) /\ Persisting(t) /\ replaces[t] = 0) => exc[t] = "IOError"
    /\ AllIdle => lock = Unlocked

\* C3's case: a set whose persist failed is at its end; the mapping changed
C3_Witness ==
    \E t \in Threads :
        /\ AtEnd(t) /\ exc[t] = "IOError" /\ op[t].name = "set"
        /\ data # before[t].data
        /\ before[t].file.exists

\* C4 (as claimed): when a mutating call raised IOError and the same call is
\* made again and returns, a Store loaded from the backing file would hold
\* exactly the in-memory mapping; for set, delete, update and clear.
C4_RetryReconciles ==
    \A t \in Threads :
        (AtEnd(t) /\ exc[t] = "none" /\ op[t] = failed /\ op[t].name \in Mutating)
            => (Loaded.raised = "none" /\ Loaded.val = data)

\* C5: once every worker thread has returned from set(key_i, i), the mapping
\* holds i under key_i for every i, and the backing file is well-formed and
\* deserializes to the mapping.
C5_ConcurrentSetsAllLand ==
    (workers = Threads /\ AllIdle /\ okSets)
        => /\ \A t \in Threads : DictGet(data.dict, WorkerKey(t), None) = PyInt(t)
           /\ DeserializesTo(Backing, data)

\* C5's case: every worker has returned and the last key of the mapping is the
\* first thread's (the threads did not run in the order of their numbers)
C5_Witness ==
    /\ workers = Threads /\ AllIdle /\ okSets
    /\ data.dict[Len(data.dict)][1] = WorkerKey(1)

\* C6: a read returns what it gives on the mapping left by the mutating calls
\* completed so far (abs: each mutating call applied whole, in the order in
\* which they took effect), at most one thread is inside a call's critical
\* section, and outside any call the mapping is that abstract mapping.
C6_Linearizable ==
    /\ \A t \in Threads :
          (AtEnd(t) /\ op[t].name \in {"get", "exists", "get_all"})
              => ret[t] = ReadResult(op[t], seen[t].dict)
    /\ Cardinality({t \in Threads : pc[t] # "idle"}) <= 1
    /\ \A t \in Threads : pc[t] # "idle" => lock.owner = t
    /\ AllIdle => data = abs

\* C6's case: get_all returns a mapping that an earlier mutating call made
C6_Witness ==
    \E t \in Threads :
        /\ AtEnd(t) /\ op[t].name = "get_all"
        /\ ret[t] = PyDict(<< <<KeyB, PyInt(1)>> >>)

\* C7: when every call on a Store was a set that returned, a Store constructed
\* next on the same path is constructed without error and holds the same
\* mapping, so get gives for every key the value last set for it.
C7_RoundTripAcrossRestart ==
    [][(restarts' = restarts + 1 /\ store = "ok" /\ okSets /\ AllIdle)
          => /\ store' = "ok"
             /\ data' = data
             /\ \A k \in Keys : \A d \in Defaults :
                   ReadResult(OpGet(k, d), data'.dict) = ReadResult(OpGet(k, d), abs.dict)]_vars

\* C7's case: a Store was constructed after two sets, of a non-ASCII string
\* under "b" and then under "a"
C7_Witness ==
    /\ restarts = 1 /\ calls = 2 /\ AllIdle /\ store = "ok"
    /\ data = PyDict(<< <<KeyB, PyStr(<<"1", "U+00E9">>)>>,
                        <<KeyA, PyStr(<<"1", "U+00E9">>)>> >>)

\* C8: at the end of update(m) the mapping is the one of before the call with
\* every entry of m merged in (keys of m overwritten, other keys unchanged);
\* the call replaced the backing file exactly once when it returns and not at
\* all when it raises; and throughout the call the backing file is the one of
\* before the call or the serialization of the complete merge.
C8_UpdateMergesAndPersistsOnce ==
    \A t \in Threads :
        op[t].name = "update"
            => LET old == before[t].data.dict
                   m == op[t].updates
                   merged == PyDict(DictUpdate(old, m))
               IN  /\ Backing \in {before[t].file, FileWith(merged)}
                   /\ replaces[t] <= 1
                   /\ AtEnd(t)
                         => /\ data = merged
                            /\ \A k \in Keys :
                                  DictGet(data.dict, k, None) =
                                      IF HasKey(m, k) THEN Lookup(m, k)
                                      ELSE DictGet(old, k, None)
                            /\ replaces[t] = IF exc[t] = "none" THEN 1 ELSE 0
                            /\ exc[t] = "none" => Backing = FileWith(merged)

\* C8's case: an update of two keys, one of them overwritten, has returned
C8_Witness ==
    \E t \in Threads :
        /\ AtEnd(t) /\ op[t].name = "update" /\ exc[t] = "none"
        /\ before[t].data = PyDict(<< <<KeyA, PyStr(<<"1", "U+00E9">>)>> >>)
        /\ data = PyDict(StoredItems)
        /\ replaces[t] = 1

\* C9: a delete(k) that returns gives true exactly when k was in the mapping
\* when the call began. When k was there it is removed, and the mapping is on
\* disk when the call returns; when k was not there the call returns false
\* without raising, the mapping is unchanged, and neither the backing file
\* nor the temporary file was written.
C9_DeleteReturnsWhetherKeyExisted ==
    \A t \in Threads :
        (AtEnd(t) /\ op[t].name = "delete")
            => LET old == before[t].data.dict
                   had == HasKey(old, op[t].key)
               IN  /\ exc[t] = "none" => ret[t] = PyBool(had)
                   /\ had => /\ data = PyDict(DictDelItem(old, op[t].key))
                              /\ ~HasKey(data.dict, op[t].key)
                              /\ exc[t] = "none"
                                    => (replaces[t] = 1 /\ Backing = FileWith(data))
                   /\ ~had => /\ exc[t] = "none"
                               /\ data = before[t].data
                               /\ replaces[t] = 0
                               /\ Backing = before[t].file
                               /\ Temp = before[t].tmp

\* C9's case: delete of a key that was there has returned true, another key
\* staying in the mapping
C9_Witness ==
    \E t \in Threads :
        /\ AtEnd(t) /\ op[t] = OpDelete(KeyA) /\ ret[t] = PyBool(TRUE)
        /\ before[t].data = PyDict(StoredItems)
        /\ data = PyDict(<< <<KeyB, PyStr(<<"1", "U+00E9">>)>> >>)

\* the file f is missing, or its content is not a JSON document
FailsToParse(f) ==
    \/ ~f.exists
    \/ ~Utf8Decode(f.bytes).ok
    \/ ~Loads(Utf8Decode(f.bytes).text).ok

\* C10 (as claimed): a Store constructed on a path whose file is missing or
\* fails to parse is constructed without error and holds the empty mapping
\* (no call has been made on it yet).
C10_MalformedFileGivesEmptyStore ==
    (calls = 0 /\ FailsToParse(Backing)) => (store = "ok" /\ data = PyDict(<<>>))

\* C12: at the end of clear() the mapping is empty; when the call returns it
\* has replaced the backing file once by the serialization of the empty
\* mapping and no temporary file is left, also when the mapping was already
\* empty; a clear on a Store that is empty in memory and on disk leaves the
\* state it found.
C12_ClearEmptiesAndPersists ==
    \A t \in Threads :
        (AtEnd(t) /\ op[t].name = "clear")
            => /\ data = PyDict(<<>>)
               /\ exc[t] = "none"
                     => /\ replaces[t] = 1
                        /\ Backing = FileWith(PyDict(<<>>))
                        /\ ~Temp.exists
                        /\ (/\ before[t].data = PyDict(<<>>)
                            /\ before[t].file = FileWith(PyDict(<<>>))
                            /\ ~before[t].tmp.exists)
                              => (/\ data = before[t].data
                                  /\ Backing = before[t].file
                                  /\ Temp = before[t].tmp)

\* C12's case: the second of two calls is a clear that found the mapping empty
\* in memory and on disk, and has returned
C12_Witness ==
    \E t \in Threads :
        /\ AtEnd(t) /\ op[t].name = "clear" /\ exc[t] = "none"
        /\ calls = 2 /\ restarts = 0 /\ failed = NoOp
        /\ before[t].data = PyDict(<<>>)
        /\ before[t].file = FileWith(PyDict(<<>>))
        /\ replaces[t] = 1

\* C13: get(k, D) never raises; it returns the value stored under k when k is
\* in the mapping, whatever D, and D when k is not; exists(k) is true exactly
\* when k is in the mapping; and the value stored under k is the one the last
\* set(k, v) put there.
C13_GetReturnsStoredOrDefault ==
    \A t \in Threads :
        AtEnd(t)
            => /\ op[t].name = "get"
                     => /\ exc[t] = "none"
                        /\ ret[t] = IF op[t].key \in KeySet(seen[t].dict)
                                     THEN Lookup(seen[t].dict, op[t].key)
                                     ELSE op[t].default
               /\ op[t].name = "exists"
                     => /\ exc[t] = "none"
                        /\ ret[t] = PyBool(op[t].key \in KeySet(seen[t].dict))
               /\ op[t].name = "set"
                     => /\ op[t].key \in KeySet(abs.dict)
                        /\ Lookup(abs.dict, op[t].key) = op[t].value

\* C13's case: get of a key that is not in a non-empty mapping has returned
\* the default it was given
C13_Witness ==
    \E t \in Threads :
        /\ AtEnd(t) /\ op[t] = OpGet(KeyA, PyInt(2)) /\ ret[t] = PyInt(2)
        /\ data = PyDict(<< <<KeyB, PyStr(<<"1", "U+00E9">>)>> >>)

\* C14: every call a thread has started ends (the thread is outside any call
\* again); the lock is free whenever no thread is inside a with block, a
\* failed persist included; and the lock is never refused to the thread that
\* enters _save_data from inside a mutating call.
C14_EveryCallEndsAndLockIsFreed ==
    /\ \A t \in Threads : (pc[t] # "idle") ~> (pc[t] = "idle")
    /\ []((\A t \in Threads : pc[t] \in {"idle", "acquire"}) => lock = Unlocked)
    /\ [](\A t \in Threads : pc[t] = "save_acquire" => CanAcquire(t))

\* C14's case: a thread waits for the lock while another, inside _save_data,
\* holds it twice and its persist has failed
C14_Witness ==
    \E t, u \in Threads :
        /\ pc[t] = "acquire"
        /\ pc[u] = "save_release" /\ exc[u] = "IOError"
        /\ lock = [owner |-> u, count |-> 2]

\* C15: from the entry of get, exists or get_all to its end, the mapping, the
\* backing file and the temporary file are what they were when the call
\* began; the call opens no file, replaces nothing and never enters
\* _save_data.
C15_ReadsChangeNothing ==
    \A t \in Threads :
        (pc[t] # "idle" /\ op[t].name \in {"get", "exists", "get_all"})
            => /\ pc[t] \in {"body", "release"}
               /\ data = before[t].data
               /\ Backing = before[t].file
               /\ Temp = before[t].tmp
               /\ fd[t] = NoFd
               /\ replaces[t] = 0

\* C15's case: get_all has returned on a Store whose mapping is not what the
\* backing file holds (an earlier persist failed)
C15_Witness ==
    \E t \in Threads :
        /\ AtEnd(t) /\ op[t].name = "get_all"
        /\ ret[t] = data
        /\ Loaded.val # data
        /\ Backing.exists
\* C17: for every backing path, the file a persist has open for writing is
\* never the backing file itself (the temporary path differs from the backing
\* path), and when a persist has succeeded no file is left at the temporary
\* path.
C17_TempFileDistinctAndRemoved ==
    \A t \in Threads :
        /\ fd[t].ino # 0 => (TempPath(file_path) # file_path /\ fd[t].ino # names[file_path])
        /\ (pc[t] = "save_release" /\ exc[t] = "none") => ~Temp.exists

\* C18: whatever document the backing file held at construction, once the
\* Store is constructed its data is a mapping, and no method fails because
\* the data is of another type.
C18_DataIsAlwaysAMapping ==
    /\ store = "ok" => IsDict(data)
    /\ \A t \in Threads : exc[t] \notin {"AttributeError", "TypeError"}

\* C11: whatever the caller does to the mapping get_all returned, a later
\* get, exists or get_all returns what the calls made through the Store's
\* methods determine, and a later persist writes exactly that mapping.
C11_GetAllCopyIsIndependent ==
    \A t \in Threads :
        /\ (AtEnd(t) /\ exc[t] = "none" /\ op[t].name \in {"get", "exists", "get_all"})
              => Deref(ret[t]) = ReadResult(op[t], seen[t].dict)
        /\ pc[t] = "save_close" => buf[t] = Utf8Encode(Dumps(abs))

\* the file f holds the complete serialization of a mapping: it decodes and
\* parses to a mapping, and is exactly what json.dump writes for that mapping
CompleteDocument(f) ==
    LET d == Utf8Decode(f.bytes)
        r == IF d.ok THEN Loads(d.text) ELSE ParseFail
    IN  /\ d.ok
        /\ r.ok
        /\ IsDict(r.val)
        /\ f.bytes = Utf8Encode(Dumps(r.val))

\* C16: while two Stores that share no lock persist to the same path, the
\* backing file, whenever it exists, holds the complete serialization of a
\* mapping: never a truncated document or a mixture of two documents.
C16_UnlockedWritersKeepFileWhole ==
    Backing.exists => CompleteDocument(Backing)

====
